---- MODULE Spec2Model ----
(***************************************************************************)
(* State-machine model of libavformat/tcp.c: tcp_open (connect and listen  *)
(* mode, candidate fallback, interruptible wait loop), tcp_read, tcp_write,*)
(* tcp_close and tcp_get_file_handle, running against a nondeterministic   *)
(* socket layer.                                                           *)
(***************************************************************************)
EXTENDS Integers, Sequences, FiniteSets, TLC

\* ---------------------------------------------------------------- bounds
MaxCand == 2       \* longest candidate list getaddrinfo returns
MaxPolls == 1      \* unready poll() calls per candidate the call trace keeps
MaxRedo == 1       \* EINTR connect() calls per candidate the call trace keeps
MaxLeaked == 0     \* descriptors left open beyond which the caller stops calling tcp_open
MaxSize == 1       \* largest size passed to tcp_read / tcp_write

\* ------------------------------------------------------- error constants
EINTR == 4
EIO == 5
EBADF == 9
EAGAIN == 11
ENOMEM == 12
EINVAL == 22
ECONNREFUSED == 111
EINPROGRESS == 115
AVERROR_EXIT == -1414092869

AVERROR(e) == -e

\* errno values a failing socket call may leave behind
NetErrnos == {EINTR, EAGAIN, EINPROGRESS, ECONNREFUSED}

\* ----------------------------------------------------------------- inputs
\* what av_url_split yields for the uri: the scheme and the port (-1 when the
\* uri has no port), and whether the query string carries a "listen" tag
Protos == {"tcp", "udp"}
Ports == {-1, 0, 65535, 65536, 70000}
Uris == [proto : Protos, port : Ports, listen : {0, 1}]

VARIABLES
    pc,          \* position of the caller / of tcp_open
    uri,         \* the uri of the current tcp_open call
    listen_socket,
    ai,          \* getaddrinfo result: ai[i] = candidate i accepts a connection
    cur_ai,      \* index of the current candidate
    fd,          \* local fd of tcp_open
    fd1,         \* local fd1 of tcp_open: what accept() returned
    ret,         \* local ret of tcp_open
    neterrno,    \* errno of the socket layer
    h,           \* the URLContext passed to tcp_open: priv_data and is_streamed
    result,      \* value returned by the last tcp_open
    interrupt,   \* what url_interrupt_cb() returns now
    fds,         \* the open descriptors of the process
    sock,        \* what the descriptor in fd is (see NoSock)
    fdsBefore,   \* DOMAIN fds when the current tcp_open was called
    calls,       \* socket-layer calls made for the current candidate, in order
    hist,        \* what the current tcp_open has done so far (see NoHist)
    io           \* the last tcp_read / tcp_write call on the context (see NoIo)

vars == <<pc, uri, listen_socket, ai, cur_ai, fd, fd1, ret, neterrno, h, result,
          interrupt, fds, sock, fdsBefore, calls, hist, io>>

\* h->priv_data: alloc = the pointer is not NULL, freed = the TCPContext it
\* points at has been av_free'd, fd = what s->fd reads
NoContext == [alloc |-> FALSE, freed |-> FALSE, fd |-> -1]
Context(f) == [alloc |-> TRUE, freed |-> FALSE, fd |-> f]

\* a URLContext as url_alloc leaves it (zeroed)
FreshHandle == [priv_data |-> NoContext, is_streamed |-> 0]

\* the fd field of a TCPContext that has been av_free'd: the memory is the
\* allocator's, and the field stands for no value of the program's
Indeterminate == 1514093615

\* h->priv_data once the TCPContext it points at is freed: the pointer is kept
FreedContext == [alloc |-> TRUE, freed |-> TRUE, fd |-> Indeterminate]

\* what a read of s->fd yields: the value stored while the TCPContext is live,
\* and once it is freed any value, a descriptor number or not
FdReads(s) == IF s.freed THEN (-1..1) \cup {Indeterminate} ELSE {s.fd}

\* history of one tcp_open call
NoHist ==
    [attempts |-> <<>>,       \* candidates socket() was called for, in order
     naccept |-> 0,           \* accept() calls
     backlog |-> 0,           \* backlog of the last listen() call
     handle |-> FreshHandle,  \* the URLContext as the caller passed it
     bindFailed |-> FALSE,    \* some bind() failed
     acceptFailed |-> FALSE,  \* some accept() failed
     observed |-> FALSE,      \* url_interrupt_cb() has returned true
     lateCalls |-> {},        \* socket/connect calls made after that
     rose |-> FALSE,          \* interrupt rose inside the wait loop and stayed
     polls |-> 0,             \* poll() calls started since it rose
     ready |-> FALSE,         \* one of them reported readiness
     lateAttempts |-> 0]      \* socket() calls made since it rose

\* one tcp_read / tcp_write call: whether h->flags had AVIO_FLAG_NONBLOCK, the
\* size asked for, the calls it made in order, the value it returned,
\* and where the call is: "wait" before ff_network_wait_fd returns, "xfer"
\* before recv / send returns, "ret" once it has returned
NoIo == [op |-> "none", nonblock |-> FALSE, size |-> 0, trace |-> <<>>, ret |-> 0,
         at |-> "none"]

NoUri == [proto |-> "tcp", port |-> 65535, listen |-> 0]

OpenFds == fds

\* the descriptor tcp_open holds: how it was made, for which candidate, and
\* whether a connection is established on it
NoSock == [fd |-> -1, kind |-> "none", cand |-> 0, connected |-> FALSE]

\* the descriptor number the kernel hands out next: the lowest free one
NewFd == CHOOSE n \in 0..Cardinality(OpenFds) :
             n \notin OpenFds /\ \A m \in 0..(n - 1) : m \in OpenFds

\* one socket-layer call: the descriptor and candidate it was made for, what it
\* returned, and the errno it left when it failed (kept for connect only)
Call(op, f, cand, res, err) ==
    [op |-> op, fd |-> f, cand |-> cand, res |-> res, err |-> err]

\* closesocket(f): releases f when it is an open descriptor
Closed(table, f) == table \ {f}

\* a new descriptor n of kind k for candidate c
Opened(n, k, c, conn) == [fd |-> n, kind |-> k, cand |-> c, connected |-> conn]

NPolls == Cardinality({i \in 1..Len(calls) : calls[i].op = "poll" /\ calls[i].res <= 0})
NRedo == Cardinality({i \in 1..Len(calls) : calls[i].op = "connect" /\ calls[i].err = EINTR})


Init ==
    /\ pc = "idle"
    /\ uri = NoUri
    /\ listen_socket = 0
    /\ ai = <<>>
    /\ cur_ai = 0
    /\ fd = -1
    /\ fd1 = -1
    /\ ret = 0
    /\ neterrno = 0
    /\ h = FreshHandle
    /\ result = 0
    /\ interrupt = FALSE
    /\ fds = {}
    /\ sock = NoSock
    /\ fdsBefore = {}
    /\ calls = <<>>
    /\ hist = NoHist
    /\ io = NoIo

\* ------------------------------------------------------------- tcp_open
\* the port check with the lower comparison off by one
PortValid_AcceptsZero(port) == ~(port < 0 \/ port >= 65536)

\* line 52: the port av_url_split produced is in 1..65535
PortValid(port) == ~(port <= 0 \/ port >= 65536)

\* lines 37-59: entry, av_url_split, the scheme/port check, the listen tag.
\* The URLContext is the caller's: a new one from url_alloc, or the one it
\* passed before. errno is left as the last call left it.
TcpOpenEntry ==
    /\ pc \in {"idle", "closed"} \/ (pc = "done" /\ result /= 0)
    /\ Cardinality(OpenFds) <= MaxLeaked
    /\ \E u \in Uris :
        /\ uri' = u
        /\ IF u.proto /= "tcp" \/ ~PortValid(u.port)
           THEN /\ result' = AVERROR(EINVAL)
                /\ pc' = "done"
                /\ listen_socket' = 0
           ELSE /\ result' = 0
                /\ pc' = "resolve"
                /\ listen_socket' = u.listen
    /\ \E handle \in {h, FreshHandle} :
        /\ h' = handle
        /\ hist' = [NoHist EXCEPT !.handle = handle]
    /\ ai' = <<>>
    /\ cur_ai' = 0
    /\ fd' = -1
    /\ fd1' = -1
    /\ ret' = 0
    /\ fdsBefore' = OpenFds
    /\ calls' = <<>>
    /\ sock' = NoSock
    /\ io' = NoIo
    /\ UNCHANGED <<interrupt, fds, neterrno>>

\* lines 60-72: getaddrinfo
Resolve ==
    /\ pc = "resolve"
    /\ UNCHANGED <<io, fd1>>
    /\ \/ /\ ret' = -2
          /\ result' = AVERROR(EIO)
          /\ pc' = "done"
          /\ UNCHANGED <<ai, cur_ai>>
       \/ \E n \in 1..MaxCand : \E r \in [1..n -> BOOLEAN] :
          /\ ret' = 0
          /\ ai' = r
          /\ cur_ai' = 1
          /\ pc' = "restart"
          /\ UNCHANGED result
    /\ UNCHANGED <<uri, listen_socket, fd, neterrno, h, interrupt, fds, sock,
                   fdsBefore, calls, hist>>

\* lines 74-79: restart: socket()
Restart ==
    /\ pc = "restart"
    /\ UNCHANGED <<io, fd1>>
    /\ \/ /\ fd' = NewFd
          /\ fds' = fds \cup {NewFd}
          /\ sock' = Opened(NewFd, "socket", cur_ai, FALSE)
          /\ calls' = << Call("socket", NewFd, cur_ai, NewFd, 0) >>
          /\ pc' = IF listen_socket /= 0 THEN "bind" ELSE "redo"
          /\ UNCHANGED neterrno
       \/ /\ fd' = -1
          /\ neterrno' = ECONNREFUSED
          /\ calls' = << Call("socket", -1, cur_ai, -1, 0) >>
          /\ pc' = "fail"
          /\ sock' = NoSock
          /\ UNCHANGED fds
    /\ hist' = [hist EXCEPT !.attempts = Append(@, cur_ai),
                            !.lateCalls = IF hist.observed THEN @ \cup {"socket"} ELSE @,
                            !.lateAttempts = IF hist.rose THEN @ + 1 ELSE @]
    /\ UNCHANGED <<uri, listen_socket, ai, cur_ai, ret, h, result, interrupt,
                   fdsBefore>>

\* errno after a call that returned res: set when it failed, kept otherwise
ErrnoAfter(old, res, e) == IF res < 0 THEN e ELSE old

\* line 82: the backlog passed to listen()
Backlog == 1

\* line 81: bind()
Bind ==
    /\ pc = "bind"
    /\ \E b \in {0, -1}, e \in NetErrnos :
        /\ ret' = b
        /\ neterrno' = ErrnoAfter(neterrno, b, e)
        /\ calls' = Append(calls, Call("bind", fd, cur_ai, b, 0))
        /\ hist' = [hist EXCEPT !.bindFailed = @ \/ b < 0]
    /\ pc' = "listen"
    /\ UNCHANGED <<uri, listen_socket, ai, cur_ai, fd, fd1, h, result, interrupt, fds,
                   sock, fdsBefore, io>>

\* line 82: listen(fd, 1); its result is not kept
Listen ==
    /\ pc = "listen"
    /\ \E l \in {0, -1} :
        /\ neterrno' = ErrnoAfter(neterrno, l, ECONNREFUSED)
        /\ calls' = Append(calls, Call("listen", fd, cur_ai, l, 0))
    /\ hist' = [hist EXCEPT !.backlog = Backlog]
    /\ pc' = "accept"
    /\ UNCHANGED <<uri, listen_socket, ai, cur_ai, fd, fd1, ret, h, result, interrupt, fds,
                   sock, fdsBefore, io>>

\* line 83: fd1 = accept(fd, NULL, NULL), on a socket that is still blocking:
\* the step is taken when a peer has connected or accept has failed, and until
\* then tcp_open stays here with the listening descriptor open
Accept ==
    /\ pc = "accept"
    /\ \/ /\ fd1' = NewFd
          /\ fds' = fds \cup {NewFd}
          /\ sock' = Opened(NewFd, "accepted", cur_ai, TRUE)
          /\ UNCHANGED neterrno
       \/ /\ fd1' = -1
          /\ neterrno' = ECONNREFUSED
          /\ sock' = NoSock
          /\ UNCHANGED fds
    /\ calls' = Append(calls, Call("accept", fd, cur_ai, fd1', 0))
    /\ hist' = [hist EXCEPT !.naccept = @ + 1,
                            !.acceptFailed = @ \/ fd1' < 0]
    /\ pc' = "close_listen"
    /\ UNCHANGED <<uri, listen_socket, ai, cur_ai, fd, ret, h, result, interrupt,
                   fdsBefore, io>>

\* lines 84-85: closesocket(fd); fd = fd1
CloseListen ==
    /\ pc = "close_listen"
    /\ fds' = Closed(fds, fd)
    /\ calls' = Append(calls, Call("close", fd, cur_ai, 0, 0))
    /\ fd' = fd1
    /\ pc' = "nonblock"
    /\ UNCHANGED <<uri, listen_socket, ai, cur_ai, fd1, ret, neterrno, h, result, interrupt,
                   sock, fdsBefore, hist, io>>

\* lines 87-88: redo: connect()
Redo ==
    /\ pc = "redo"
    /\ UNCHANGED <<io, fd1>>
    /\ \/ /\ fd \in OpenFds
          /\ ai[cur_ai]
          /\ ret' = 0
          /\ sock' = [sock EXCEPT !.connected = TRUE]
          /\ calls' = Append(calls, Call("connect", fd, cur_ai, 0, 0))
          /\ UNCHANGED neterrno
       \/ \E e \in NetErrnos :
          /\ fd \in OpenFds
          /\ ret' = -1
          /\ neterrno' = e
          /\ calls' = IF e = EINTR /\ NRedo >= MaxRedo
                       THEN calls
                       ELSE Append(calls, Call("connect", fd, cur_ai, -1, e))
          /\ UNCHANGED sock
       \/ /\ fd \notin OpenFds
          /\ ret' = -1
          /\ neterrno' = EBADF
          /\ calls' = Append(calls, Call("connect", fd, cur_ai, -1, EBADF))
          /\ UNCHANGED sock
    /\ hist' = [hist EXCEPT !.lateCalls = IF hist.observed THEN @ \cup {"connect"} ELSE @]
    /\ pc' = "nonblock"
    /\ UNCHANGED <<uri, listen_socket, ai, cur_ai, fd, h, result, interrupt, fds,
                   fdsBefore>>

\* ff_socket_nonblock(fd, 1): fcntl on the descriptor; fails on a bad one
SocketNonblockErrno(f, old) == IF f \in OpenFds THEN old ELSE EBADF

\* the dispatch with EINTR taken for a failure of the candidate
Dispatch_EintrFails(r, e) ==
    IF r >= 0 THEN "alloc"
    ELSE IF AVERROR(e) /= AVERROR(EINPROGRESS) /\ AVERROR(e) /= AVERROR(EAGAIN) THEN "fail"
    ELSE "wait_check"

\* lines 93-104: where tcp_open goes after connect/accept, from ret and errno
Dispatch(r, e) ==
    IF r >= 0 THEN "alloc"
    ELSE IF AVERROR(e) = AVERROR(EINTR) THEN "intr_check"
    ELSE IF AVERROR(e) /= AVERROR(EINPROGRESS) /\ AVERROR(e) /= AVERROR(EAGAIN) THEN "fail"
    ELSE "wait_check"

\* lines 91-104: ff_socket_nonblock, then the dispatch on ret and ff_neterrno()
Nonblock ==
    /\ pc = "nonblock"
    /\ UNCHANGED <<io, fd1>>
    /\ neterrno' = SocketNonblockErrno(fd, neterrno)
    /\ calls' = IF calls[Len(calls)].op = "nonblock"
                 THEN calls
                 ELSE Append(calls, Call("nonblock", fd, cur_ai, 0, 0))
    /\ pc' = Dispatch(ret, neterrno')
    /\ UNCHANGED <<uri, listen_socket, ai, cur_ai, fd, ret, h, result, interrupt, fds,
                   sock, fdsBefore, hist>>

\* an abort that takes the candidate-failure exit instead of fail1
Abort_ToFail ==
    /\ ret' = AVERROR_EXIT
    /\ pc' = "fail"
    /\ hist' = [hist EXCEPT !.observed = TRUE]

\* lines 96-99 and 108-111: url_interrupt_cb() returned true
Abort ==
    /\ ret' = AVERROR_EXIT
    /\ pc' = "fail1"
    /\ hist' = [hist EXCEPT !.observed = TRUE]

\* lines 96-100: the interrupt check after an EINTR
IntrCheck ==
    /\ pc = "intr_check"
    /\ UNCHANGED <<io, fd1>>
    /\ IF interrupt
       THEN Abort
       ELSE /\ pc' = "redo"
            /\ UNCHANGED <<ret, hist>>
    /\ UNCHANGED <<uri, listen_socket, ai, cur_ai, fd, neterrno, h, result, interrupt,
                   fds, sock, fdsBefore, calls>>

\* a wait loop that never asks the interrupt callback
WaitCheck_NoInterrupt ==
    /\ pc = "wait_check"
    /\ pc' = "poll"
    /\ UNCHANGED <<uri, listen_socket, ai, cur_ai, fd, ret, neterrno, h, result, interrupt,
                   fds, sock, fdsBefore, calls, hist, io, fd1>>

\* lines 107-111: the interrupt check at the head of the wait loop
WaitCheck ==
    /\ pc = "wait_check"
    /\ UNCHANGED <<io, fd1>>
    /\ IF interrupt
       THEN Abort
       ELSE /\ pc' = "poll"
            /\ UNCHANGED <<ret, hist>>
    /\ UNCHANGED <<uri, listen_socket, ai, cur_ai, fd, neterrno, h, result, interrupt,
                   fds, sock, fdsBefore, calls>>

\* a wait loop that also ends on a poll timeout
LoopExit_OnTimeout(r) == r >= 0

\* line 113: the wait loop is left when poll reports a positive count
LoopExit(r) == r > 0

\* lines 112-115: poll(&p, 1, 100); a negative descriptor is never ready
Poll ==
    /\ pc = "poll"
    /\ UNCHANGED <<io, fd1>>
    /\ \E r \in {-1, 0, 1} :
        /\ r > 0 => fd \in OpenFds
        /\ ret' = r
        /\ neterrno' = IF r < 0 THEN EINTR ELSE neterrno
        /\ calls' = IF r <= 0 /\ NPolls >= MaxPolls
                     THEN calls
                     ELSE Append(calls, Call("poll", fd, cur_ai, r, 0))
        /\ pc' = IF LoopExit(r) THEN "sockerr" ELSE "wait_check"
        /\ hist' = [hist EXCEPT !.polls = IF hist.rose THEN @ + 1 ELSE @,
                                !.ready = IF hist.rose THEN @ \/ r > 0 ELSE @]
    /\ UNCHANGED <<uri, listen_socket, ai, cur_ai, fd, h, result, interrupt, fds,
                   sock, fdsBefore>>

\* the pending-error test with only negative values taken for errors
PendingError_NegativeOnly(v) == v < 0

\* line 119: if (ret != 0)
PendingError(v) == v /= 0

\* lines 117-126: getsockopt(SO_ERROR); a failing getsockopt leaves ret alone
SockErr ==
    /\ pc = "sockerr"
    /\ UNCHANGED <<io, fd1>>
    /\ \E v \in {0, ECONNREFUSED} :
        /\ v = 0 => ai[cur_ai]
        /\ ret' = v
        /\ sock' = IF v = 0 THEN [sock EXCEPT !.connected = TRUE] ELSE sock
        /\ calls' = Append(calls, Call("getsockopt", fd, cur_ai, v, 0))
        /\ pc' = IF PendingError(v) THEN "fail" ELSE "alloc"
    /\ UNCHANGED <<uri, listen_socket, ai, cur_ai, fd, neterrno, h, result, interrupt,
                   fds, fdsBefore, hist>>

\* lines 127-136: av_malloc of the TCPContext and the successful return
Alloc ==
    /\ pc = "alloc"
    /\ UNCHANGED <<io, fd1>>
    /\ \/ /\ h' = [priv_data |-> Context(fd), is_streamed |-> 1]
          /\ result' = 0
       \/ /\ result' = AVERROR(ENOMEM)
          /\ UNCHANGED h
    /\ pc' = "done"
    /\ UNCHANGED <<uri, listen_socket, ai, cur_ai, fd, ret, neterrno, interrupt, fds,
                   sock, fdsBefore, calls, hist>>

\* a fallback that gives up one candidate early
HasNext_StopsEarly(c) == c + 1 < Len(ai)

\* line 139: cur_ai->ai_next is not NULL
HasNext(c) == c < Len(ai)

\* a fallback that does not advance to the next candidate
AiNext_Stays(c) == c

\* line 141: cur_ai = cur_ai->ai_next
AiNext(c) == c + 1

\* a fallback that never closes the failed candidate's descriptor
MustClose_Never(f) == FALSE

\* line 142: if (fd >= 0)
MustClose(f) == f >= 0

\* lines 138-146: fail: advance to the next candidate or give up with EIO
Fail ==
    /\ pc = "fail"
    /\ UNCHANGED <<io, fd1>>
    /\ IF HasNext(cur_ai)
       THEN /\ cur_ai' = AiNext(cur_ai)
            /\ IF MustClose(fd)
               THEN /\ fds' = Closed(fds, fd)
                    /\ sock' = NoSock
                    /\ calls' = Append(calls, Call("close", fd, cur_ai, 0, 0))
               ELSE UNCHANGED <<fds, sock, calls>>
            /\ pc' = "restart"
            /\ UNCHANGED ret
       ELSE /\ ret' = AVERROR(EIO)
            /\ pc' = "fail1"
            /\ UNCHANGED <<cur_ai, fds, sock, calls>>
    /\ UNCHANGED <<uri, listen_socket, ai, fd, neterrno, h, result, interrupt,
                   fdsBefore, hist>>

\* lines 147-151: fail1: close the descriptor and return ret
Fail1 ==
    /\ pc = "fail1"
    /\ UNCHANGED <<io, fd1>>
    /\ IF fd >= 0
       THEN /\ fds' = Closed(fds, fd)
            /\ sock' = NoSock
            /\ calls' = Append(calls, Call("close", fd, cur_ai, 0, 0))
       ELSE UNCHANGED <<fds, sock, calls>>
    /\ result' = ret
    /\ pc' = "done"
    /\ UNCHANGED <<uri, listen_socket, ai, cur_ai, fd, ret, neterrno, h, interrupt,
                   fdsBefore, hist>>

\* ------------------------------------------------- tcp_read, tcp_write
\* errno values recv / send / the readiness wait leave when they fail
IoErrnos == {EINTR, EAGAIN, ECONNREFUSED}

\* ff_network_wait_fd(fd, write): 0 once fd is ready, a negative AVERROR code
\* when the wait itself fails
WaitFdResults == {0} \cup {AVERROR(e) : e \in IoErrnos}

\* errno after ff_network_wait_fd returned w: a failing poll leaves its errno,
\* which is the code returned; a wait given up with AVERROR(EAGAIN) may also
\* have left errno alone
WaitFdErrnos(old, w) ==
    IF w >= 0 THEN {old}
    ELSE IF w = AVERROR(EAGAIN) THEN {old, -w}
    ELSE {-w}

\* the return statement with zero taken for a failure
IoReturn_ZeroIsError(r, e) == IF r <= 0 THEN AVERROR(e) ELSE r

\* lines 165, 179: return ret < 0 ? ff_neterrno() : ret
IoReturn(r, e) == IF r < 0 THEN AVERROR(e) ELSE r

\* the flag test inverted
ShouldWait_Inverted(nb) == nb

\* lines 159, 173: if (!(h->flags & AVIO_FLAG_NONBLOCK))
ShouldWait(nb) == ~nb

\* one call of ff_network_wait_fd / recv / send made by tcp_read or tcp_write
IoStep(op, f, arg, res) == [op |-> op, fd |-> f, arg |-> arg, res |-> res]

\* a call is made by the one thread that owns the context: not while another
\* call on it is under way
NoCallUnderWay == io.at \in {"none", "ret"}

\* lines 154-159, 168-173: entry of tcp_read / tcp_write with
\* h->flags & AVIO_FLAG_NONBLOCK = nb and the given size, on a handle tcp_open
\* returned 0 for, and the test of the flag
TcpIoEnter(name, nb, size) ==
    /\ pc = "done"
    /\ result = 0
    /\ NoCallUnderWay
    /\ io' = [op |-> name, nonblock |-> nb, size |-> size, trace |-> <<>>, ret |-> 0,
              at |-> IF ShouldWait(nb) THEN "wait" ELSE "xfer"]
    /\ UNCHANGED <<pc, uri, listen_socket, ai, cur_ai, fd, fd1, ret, neterrno, h, result,
                   interrupt, fds, sock, fdsBefore, calls, hist>>

\* lines 160-162, 174-176: ret = ff_network_wait_fd(s->fd, write);
\* if (ret < 0) return ret
TcpIoWait(name, write) ==
    /\ io.op = name
    /\ io.at = "wait"
    /\ \E w \in WaitFdResults : \E e \in WaitFdErrnos(neterrno, w) :
        /\ neterrno' = e
        /\ io' = [io EXCEPT !.trace = Append(@, IoStep("wait", h.priv_data.fd, write, w)),
                            !.ret = IF w < 0 THEN w ELSE @,
                            !.at = IF w < 0 THEN "ret" ELSE "xfer"]
    /\ UNCHANGED <<pc, uri, listen_socket, ai, cur_ai, fd, fd1, ret, h, result, interrupt,
                   fds, sock, fdsBefore, calls, hist>>

\* lines 164-165, 178-179: ret = recv / send (s->fd, buf, size, 0);
\* return ret < 0 ? ff_neterrno() : ret
TcpIoTransfer(name, oscall) ==
    LET s == h.priv_data
    IN  /\ io.op = name
        /\ io.at = "xfer"
        /\ \E r \in -1..io.size, e \in IoErrnos \cup {EBADF} :
             /\ r >= 0 => s.fd \in OpenFds /\ e = EBADF
             /\ r < 0 => (e = EBADF <=> s.fd \notin OpenFds)
             /\ neterrno' = ErrnoAfter(neterrno, r, e)
             /\ io' = [io EXCEPT !.trace = Append(@, IoStep(oscall, s.fd, io.size, r)),
                                 !.ret = IoReturn(r, neterrno'),
                                 !.at = "ret"]
        /\ UNCHANGED <<pc, uri, listen_socket, ai, cur_ai, fd, fd1, ret, h, result,
                       interrupt, fds, sock, fdsBefore, calls, hist>>

\* lines 154-159
TcpRead ==
    /\ pc = "done"
    /\ \E nb \in BOOLEAN, size \in 1..MaxSize : TcpIoEnter("tcp_read", nb, size)

\* lines 160-162
TcpReadWait ==
    /\ pc = "done"
    /\ TcpIoWait("tcp_read", 0)

\* lines 164-165
TcpReadRecv ==
    /\ pc = "done"
    /\ TcpIoTransfer("tcp_read", "recv")

\* lines 168-173
TcpWrite ==
    /\ pc = "done"
    /\ \E nb \in BOOLEAN, size \in 1..MaxSize : TcpIoEnter("tcp_write", nb, size)

\* lines 174-176
TcpWriteWait ==
    /\ pc = "done"
    /\ TcpIoWait("tcp_write", 1)

\* lines 178-179
TcpWriteSend ==
    /\ pc = "done"
    /\ TcpIoTransfer("tcp_write", "send")

\* ------------------------------------------------------------ tcp_close
\* errno after closesocket(f): EBADF when f is no open descriptor
CloseErrno(f, old) == IF f \in OpenFds THEN old ELSE EBADF

\* lines 182-188: closesocket(s->fd), av_free(s). h->priv_data is not reset:
\* it keeps pointing at the freed TCPContext
TcpClose ==
    /\ pc = "done"
    /\ result = 0
    /\ NoCallUnderWay
    /\ fds' = Closed(fds, h.priv_data.fd)
    /\ neterrno' = CloseErrno(h.priv_data.fd, neterrno)
    /\ sock' = NoSock
    /\ h' = [h EXCEPT !.priv_data = FreedContext]
    /\ io' = NoIo
    /\ pc' = "closed"
    /\ UNCHANGED <<uri, listen_socket, ai, cur_ai, fd, fd1, ret, result, interrupt,
                   fdsBefore, calls, hist>>

\* -------------------------------------------------- tcp_get_file_handle
\* lines 190-194: return s->fd, on a handle tcp_open returned 0 for; after
\* tcp_close the handle still points at the freed TCPContext
TcpGetFileHandle ==
    /\ \/ pc = "done" /\ result = 0
       \/ pc = "closed"
    /\ NoCallUnderWay
    /\ \E v \in FdReads(h.priv_data) :
         io' = [NoIo EXCEPT !.op = "tcp_get_file_handle", !.ret = v]
    /\ UNCHANGED <<pc, uri, listen_socket, ai, cur_ai, fd, fd1, ret, neterrno, h, result,
                   interrupt, fds, sock, fdsBefore, calls, hist>>

\* ---------------------------------------------------------- environment
InOpen == pc \notin {"idle", "closed", "done"}

\* url_interrupt_cb is a process-wide callback: its answer changes at any time
SetInterrupt ==
    /\ InOpen
    /\ UNCHANGED <<io, fd1>>
    /\ interrupt' = ~interrupt
    /\ hist' = [hist EXCEPT !.rose = ~interrupt /\ pc \in {"wait_check", "poll"},
                            !.polls = 0, !.ready = FALSE, !.lateAttempts = 0]
    /\ UNCHANGED <<pc, uri, listen_socket, ai, cur_ai, fd, ret, neterrno, h, result,
                   fds, sock, fdsBefore, calls>>

Next ==
    \/ TcpOpenEntry
    \/ Resolve
    \/ Restart
    \/ Bind
    \/ Listen
    \/ Accept
    \/ CloseListen
    \/ Redo
    \/ Nonblock
    \/ IntrCheck
    \/ WaitCheck
    \/ Poll
    \/ SockErr
    \/ Alloc
    \/ Fail
    \/ Fail1
    \/ TcpClose
    \/ SetInterrupt

Spec == Init /\ [][Next]_vars

\* tcp_open runs on its caller's thread and every socket-layer call it makes
\* returns, except accept(), which waits for a peer: a step of tcp_open other
\* than Accept that can be taken is taken. The interrupt callback's answer is
\* the environment's and is under no such obligation.
RunningStep ==
    \/ Resolve
    \/ Restart
    \/ Bind
    \/ Listen
    \/ CloseListen
    \/ Redo
    \/ Nonblock
    \/ IntrCheck
    \/ WaitCheck
    \/ Poll
    \/ SockErr
    \/ Alloc
    \/ Fail
    \/ Fail1

OpenStep ==
    \/ RunningStep
    \/ Accept

\* one call of tcp_open, from entry to return
OpenOnce ==
    /\ pc = "idle"
    /\ TcpOpenEntry

NextOnce ==
    \/ OpenOnce
    \/ OpenStep
    \/ SetInterrupt

FairSpec == Init /\ [][NextOnce]_vars /\ WF_vars(RunningStep)

\* the calls made on a handle tcp_open returned 0 for
NextIO ==
    \/ TcpRead
    \/ TcpReadWait
    \/ TcpReadRecv
    \/ TcpWrite
    \/ TcpWriteWait
    \/ TcpWriteSend
    \/ TcpGetFileHandle
    \/ TcpClose

\* one call of tcp_open from the initial state, whatever way it takes, and
\* then the calls on the handle it returned
SpecIO == Init /\ [][NextOnce \/ NextIO]_vars

TypeOK ==
    /\ pc \in {"idle", "resolve", "restart", "bind", "listen", "accept", "close_listen", "redo", "nonblock", "intr_check",
               "wait_check", "poll", "sockerr", "alloc", "fail", "fail1", "done", "closed"}
    /\ uri \in Uris
    /\ fd \in Int
    /\ fd1 \in Int
    /\ fd1 >= 0 => listen_socket /= 0
    /\ h.priv_data \in {NoContext, FreedContext} \cup {Context(f) : f \in -1..(MaxLeaked + 2)}
    /\ io.at \in {"none", "wait", "xfer", "ret"}
    /\ neterrno \in {0, EBADF} \cup NetErrnos
    /\ interrupt \in BOOLEAN
    /\ cur_ai \in 0..Len(ai)


\* ================================================================ claims
Done == pc = "done"
LiveContext == h.priv_data.alloc /\ ~h.priv_data.freed
Succeeded == Done /\ result = 0
Failed == Done /\ result /= 0
ConnectMode == listen_socket = 0 /\ Len(ai) > 0
ListenMode == listen_socket /= 0 /\ Len(ai) > 0
UpTo(n) == [i \in 1..n |-> i]
OnlyLastReachable == \A i \in 1..Len(ai) : ai[i] <=> i = Len(ai)
NoneReachable == \A i \in 1..Len(ai) : ~ai[i]
UriInvalid == uri.proto /= "tcp" \/ uri.port \notin 1..65535

\* C1: whenever tcp_open returns an error, every descriptor this call created
\* or accepted has been closed: the open descriptors are those open before the call.
C1_FailingOpenClosesAll == Failed => fds = fdsBefore

\* C2: a TCPContext is visible in h->priv_data exactly when tcp_open returned
\* success, and then its fd is a non-negative, open, connected descriptor.
C2_ContextIffSuccess ==
    /\ LiveContext <=> Succeeded
    /\ Succeeded => /\ h.priv_data.fd >= 0
                    /\ h.priv_data.fd \in fds
                    /\ sock.fd = h.priv_data.fd
                    /\ sock.connected

\* C3: a successful tcp_open leaves exactly one more descriptor open, the one
\* stored in the context, and tcp_close releases exactly that one, so the open
\* descriptors after the cycle are those before it.
C3_OpenCloseCycle ==
    /\ Succeeded => /\ fds = fdsBefore \cup {h.priv_data.fd}
                    /\ Cardinality(fds) = Cardinality(fdsBefore) + 1
    /\ pc = "closed" => fds = fdsBefore /\ ~LiveContext

\* C4: in connect mode the candidates are attempted in resolver order, each once
\* and none skipped; a successful open holds a descriptor connected to the
\* current candidate, so with only the last of N candidates reachable it succeeds
\* on the N-th after exactly the N-1 before it were attempted in order.
C4_CandidatesInOrder ==
    ConnectMode =>
        /\ hist.attempts = UpTo(Len(hist.attempts))
        /\ Len(hist.attempts) = IF pc = "restart" THEN cur_ai - 1 ELSE cur_ai
        /\ \A i \in 1..Len(calls) : calls[i].op = "connect" => calls[i].cand = calls[1].cand
        /\ Succeeded => /\ sock.cand = cur_ai
                        /\ sock.connected
                        /\ sock.fd = h.priv_data.fd
                        /\ ai[cur_ai]
        /\ Succeeded /\ OnlyLastReachable => /\ hist.attempts = UpTo(Len(ai))
                                             /\ sock.cand = Len(ai)

C4_Witness ==
    /\ Succeeded
    /\ ConnectMode
    /\ Len(ai) = MaxCand
    /\ OnlyLastReachable
    /\ hist.attempts = UpTo(MaxCand)
    /\ sock.cand = MaxCand
    /\ ~ai[1]

\* C5: in connect mode tcp_open returns AVERROR(EIO) for a resolved list only
\* after every candidate was attempted, and with no candidate reachable and no
\* interrupt observed AVERROR(EIO) is what it returns.
C5_ConnectFailureAfterAll ==
    Done /\ ConnectMode =>
        /\ result = AVERROR(EIO) => hist.attempts = UpTo(Len(ai)) /\ cur_ai = Len(ai)
        /\ NoneReachable /\ ~hist.observed => result = AVERROR(EIO)

C5_Witness ==
    /\ Done
    /\ ConnectMode
    /\ Len(ai) = MaxCand
    /\ NoneReachable
    /\ ~interrupt
    /\ result = AVERROR(EIO)
    /\ hist.attempts = UpTo(MaxCand)
    /\ Len(hist.attempts) >= 2

\* C6: once url_interrupt_cb() is seen asserted at a checkpoint, tcp_open goes
\* to fail1 and returns AVERROR_EXIT, and makes no socket() or connect() call
\* after that; every checkpoint reached with the interrupt asserted sees it.
C6_AbortInv ==
    hist.observed => /\ pc \in {"fail1", "done"}
                     /\ ret = AVERROR_EXIT
                     /\ Done => result = AVERROR_EXIT
                     /\ hist.lateCalls = {}

C6_AbortStopsCandidates ==
    /\ []C6_AbortInv
    /\ [][(pc \in {"intr_check", "wait_check"} /\ interrupt /\ pc' /= pc)
              => (hist'.observed /\ pc' = "fail1")]_vars

C6_Witness ==
    /\ Done
    /\ hist.observed
    /\ result = AVERROR_EXIT
    /\ cur_ai < Len(ai)

\* C7 as stated: once the interrupt rises inside the connect wait loop and
\* stays asserted, tcp_open makes at most one more poll call, attempts no
\* further candidate and returns AVERROR_EXIT.
C7_AbortWithinOnePoll ==
    hist.rose /\ ConnectMode =>
                 /\ hist.polls <= 1
                 /\ hist.lateAttempts = 0
                 /\ Done => result = AVERROR_EXIT

\* C7 amended: once the interrupt rises inside the wait loop and stays asserted,
\* tcp_open makes at most one more poll call; unless that poll call reports
\* readiness, it attempts no further candidate and returns AVERROR_EXIT.
C7_AbortUnlessReady ==
    hist.rose => /\ hist.polls <= 1
                 /\ ~hist.ready => /\ hist.lateAttempts = 0
                                   /\ pc \in {"wait_check", "poll", "fail1", "done"}
                                   /\ Done => result = AVERROR_EXIT

C7_Witness ==
    /\ Done
    /\ ConnectMode
    /\ hist.rose
    /\ hist.polls = 1
    /\ ~hist.ready
    /\ result = AVERROR_EXIT
    /\ cur_ai < Len(ai)

\* C8: with a scheme other than tcp or a port outside 1..65535 tcp_open returns
\* AVERROR(EINVAL) at once: no resolution, no socket-layer call, no context, and
\* the handle and the open descriptors are as before the call.
C8_InvalidArgument ==
    UriInvalid => /\ Done
                  /\ result = AVERROR(EINVAL)
                  /\ ai = <<>>
                  /\ calls = <<>>
                  /\ hist = [NoHist EXCEPT !.handle = h]
                  /\ fds = fdsBefore

C8_Witness ==
    /\ Done
    /\ uri.proto = "tcp"
    /\ uri.port = 0
    /\ result = AVERROR(EINVAL)

\* C9: in listen mode a tcp_open during which bind() or accept() failed never
\* returns success.
C9_ListenFailureFails ==
    Done /\ ListenMode /\ (hist.bindFailed \/ hist.acceptFailed) => result /= 0

\* C10: a successful listen-mode tcp_open made exactly the calls socket, bind,
\* listen with backlog 1, one accept and the close of the listening socket, in
\* that order; the listening descriptor is closed and the context holds the
\* accepted descriptor.
C10_ListenSequence ==
    Succeeded /\ ListenMode =>
        /\ hist.attempts = <<1>>
        /\ hist.naccept = 1
        /\ Len(calls) >= 5
        /\ [i \in 1..5 |-> calls[i].op] = <<"socket", "bind", "listen", "accept", "close">>
        /\ hist.backlog = 1
        /\ calls[5].fd = calls[1].fd
        /\ calls[1].fd \notin fds
        /\ sock.kind = "accepted"
        /\ h.priv_data.fd = calls[4].res
        /\ fds = fdsBefore \cup {h.priv_data.fd}

\* C11: tcp_read and tcp_write return the result of recv / send unchanged
\* whenever it is zero or positive (a zero from recv comes back as 0), and
\* return a negative translated error code exactly when recv / send returned a
\* negative value.
OsCalls == {i \in 1..Len(io.trace) : io.trace[i].op \in {"recv", "send"}}
C11_IoResultTranslated ==
    \A i \in OsCalls :
        LET r == io.trace[i].res
        IN  /\ r >= 0 => io.ret = r
            /\ r < 0 => io.ret = AVERROR(neterrno) /\ neterrno > 0
            /\ io.ret < 0 <=> r < 0

\* a recv that returned zero, handed back as 0
C11_Witness ==
    /\ io.op = "tcp_read"
    /\ io.at = "ret"
    /\ \E i \in OsCalls : io.trace[i].op = "recv" /\ io.trace[i].res = 0
    /\ io.ret = 0

\* C17: when the handle is not flagged non-blocking, tcp_read / tcp_write first
\* wait for the context's descriptor (read-readiness for tcp_read,
\* write-readiness for tcp_write) and only then issue recv / send; a failing
\* wait is returned as it is and recv / send is not issued. When the handle is
\* flagged non-blocking, recv / send is issued with no wait before it.
C17_WaitPrecedesIo ==
    LET t == io.trace
        write == IF io.op = "tcp_write" THEN 1 ELSE 0
        oscall == IF io.op = "tcp_write" THEN "send" ELSE "recv"
        Waited == /\ Len(t) >= 1
                  /\ t[1] = IoStep("wait", h.priv_data.fd, write, t[1].res)
    IN  /\ io.at = "wait" => ~io.nonblock /\ t = <<>>
        /\ io.at = "xfer" => IF io.nonblock THEN t = <<>>
                                            ELSE Waited /\ Len(t) = 1 /\ t[1].res >= 0
        /\ io.at = "ret" =>
             /\ io.nonblock => Len(t) = 1 /\ t[1].op = oscall
             /\ ~io.nonblock =>
                  /\ Waited
                  /\ t[1].res < 0 => Len(t) = 1 /\ io.ret = t[1].res
                  /\ t[1].res >= 0 => Len(t) = 2 /\ t[2].op = oscall
                                                /\ t[2].fd = h.priv_data.fd

\* a blocking tcp_read whose wait failed: the error came back and recv was not issued
C17_Witness ==
    /\ io.op = "tcp_read"
    /\ io.at = "ret"
    /\ ~io.nonblock
    /\ io.trace = <<IoStep("wait", h.priv_data.fd, 0, io.ret)>>
    /\ io.ret < 0

\* C12: in connect mode the interrupt predicate is checked immediately before
\* the connect call of every candidate attempt: when it is asserted at that
\* point, connect() is not issued for the candidate and tcp_open goes to its
\* Aborted return.
C12_CheckedBeforeConnect ==
    [][(ConnectMode /\ pc = "redo" /\ interrupt /\ pc' /= pc)
          => (pc' = "fail1" /\ ret' = AVERROR_EXIT /\ calls' = calls)]_vars

\* C13: for every candidate in connect mode the socket is switched to
\* non-blocking after it is created and before the connection attempt: every
\* connect() call comes after an ff_socket_nonblock call on the same descriptor.
C13_NonblockBeforeConnect ==
    ConnectMode =>
        \A i \in 1..Len(calls) :
            calls[i].op = "connect" =>
                \E j \in 1..(i - 1) : calls[j].op = "nonblock" /\ calls[j].fd = calls[i].fd

\* C15: listen mode uses only the first candidate: no socket is created for a
\* second or later candidate, whatever socket / bind / accept did on the first.
C15_ListenFirstCandidateOnly ==
    ListenMode => \A i \in 1..Len(hist.attempts) : hist.attempts[i] = 1 /\ i = 1

\* C19: the mode holds for the whole tcp_open: in listen mode connect() is never
\* issued, and in connect mode bind(), listen() and accept() are never issued.
CallsMade == {calls[i].op : i \in 1..Len(calls)}
C19_ModeExclusive ==
    /\ ListenMode => "connect" \notin CallsMade
    /\ ConnectMode => CallsMade \cap {"bind", "listen", "accept"} = {}

\* C14: when connect() fails with EINTR and the interrupt predicate is not
\* asserted, tcp_open re-issues connect() on the same descriptor for the same
\* candidate: no new socket is created, the candidate does not advance, the
\* descriptor is not closed, and EINTR is never returned to the caller.
C14_Inv ==
    /\ \A i \in 1..Len(calls) :
         (calls[i].op = "connect" /\ calls[i].err = EINTR) =>
            /\ i + 1 <= Len(calls) =>
                 calls[i + 1].op = "nonblock" /\ calls[i + 1].fd = calls[i].fd
            /\ i + 2 <= Len(calls) =>
                 \/ /\ calls[i + 2].op = "connect"
                    /\ calls[i + 2].fd = calls[i].fd
                    /\ calls[i + 2].cand = calls[i].cand
                 \/ /\ calls[i + 2].op = "close"
                    /\ hist.observed
    /\ Done => result /= AVERROR(EINTR)
C14_EintrRetriesInPlace ==
    /\ []C14_Inv
    /\ [][(pc = "intr_check" /\ ~interrupt /\ pc' /= pc)
             => (/\ pc' = "redo"
                 /\ fd' = fd
                 /\ cur_ai' = cur_ai
                 /\ fds' = fds
                 /\ calls' = calls
                 /\ hist'.attempts = hist.attempts)]_vars

\* connect() failed with EINTR and was issued again on the same descriptor
C14_Witness ==
    /\ ConnectMode
    /\ \E i \in 1..(Len(calls) - 2) :
         /\ calls[i].op = "connect" /\ calls[i].err = EINTR
         /\ calls[i + 2].op = "connect" /\ calls[i + 2].fd = calls[i].fd
    /\ fd \in fds
    /\ ~hist.observed

\* C16 (as stated): in connect mode a context is returned for a candidate only
\* after the wait phase reported write-readiness for its socket and SO_ERROR
\* read as zero, also when connect() returned without failure; a non-zero
\* pending error closes the socket and goes on to the next candidate (or to the
\* ConnectFailure return when none remains).
LastTwoAre(op1, op2) ==
    /\ Len(calls) >= 2
    /\ calls[Len(calls) - 1].op = op1
    /\ calls[Len(calls)].op = op2
    /\ calls[Len(calls) - 1].fd = h.priv_data.fd
    /\ calls[Len(calls)].fd = h.priv_data.fd
PendingErrorAdvances ==
    \A i \in 1..Len(calls) :
        (calls[i].op = "getsockopt" /\ calls[i].res /= 0) =>
            /\ pc \in {"fail", "fail1", "restart", "done"}
            /\ pc \in {"restart", "done"} =>
                 /\ Len(calls) = i + 1
                 /\ calls[i + 1].op = "close"
                 /\ calls[i + 1].fd = calls[i].fd
                 /\ calls[i].fd \notin fds
            /\ pc = "restart" => cur_ai = calls[i].cand + 1
            /\ pc = "done" => result = AVERROR(EIO) /\ calls[i].cand = Len(ai)
WaitedAndClean ==
    /\ LastTwoAre("poll", "getsockopt")
    /\ calls[Len(calls) - 1].res > 0
    /\ calls[Len(calls)].res = 0
C16_ContextOnlyAfterWait ==
    ConnectMode =>
        /\ Succeeded => WaitedAndClean
        /\ PendingErrorAdvances

\* C16 (amended): in connect mode a context is returned for a candidate only
\* after either connect() itself returned without failure, with no wait phase
\* and no SO_ERROR read, or the wait phase reported write-readiness and
\* SO_ERROR read as zero; a non-zero pending error closes the socket and goes
\* on to the next candidate, or to the ConnectFailure return when none remains.
ConnectedAtOnce ==
    /\ LastTwoAre("connect", "nonblock")
    /\ calls[Len(calls) - 1].res = 0
C16_ContextAfterConnectOrWait ==
    ConnectMode =>
        /\ Succeeded => ConnectedAtOnce \/ WaitedAndClean
        /\ PendingErrorAdvances

\* a context returned after the wait phase and a zero SO_ERROR
C16_Witness == ConnectMode /\ Succeeded /\ WaitedAndClean

\* C18: in connect mode at most one descriptor created by tcp_open is open at
\* any moment: a failed candidate's socket is closed before the next is created.
C18_OneSocketAtATime ==
    ConnectMode =>
        /\ Cardinality(fds \ fdsBefore) <= 1
        /\ pc = "restart" => fds = fdsBefore

\* the second candidate's socket is open and the first one's is closed
C18_Witness ==
    /\ ConnectMode
    /\ hist.attempts = <<1, 2>>
    /\ pc = "redo"
    /\ Cardinality(fds \ fdsBefore) = 1
    /\ \E i \in 1..Len(calls) : calls[i].op = "socket" /\ calls[i].cand = 2 /\ calls[i].fd \in fds

\* C20: in connect mode, once the interrupt predicate is asserted and stays
\* asserted tcp_open returns, whatever connect() and poll() report; and while
\* it is not asserted the wait loop is left only when poll() reports a positive
\* count: a poll timeout (0) and a poll error (negative) both go round again.
C20_Returns == (ConnectMode /\ InOpen /\ interrupt) ~> (Done \/ ~interrupt)
C20_LoopLeftOnReady ==
    [][(pc = "poll" /\ pc' /= pc)
          => IF ret' > 0 THEN pc' = "sockerr" ELSE pc' = "wait_check"]_vars
C20_LoopKeptRunning ==
    [][(pc = "wait_check" /\ ~interrupt /\ pc' /= pc) => pc' = "poll"]_vars
C20_InterruptEndsOpen ==
    /\ C20_Returns
    /\ C20_LoopLeftOnReady
    /\ C20_LoopKeptRunning

\* the wait loop went round after a poll timeout and tcp_open then returned
\* Aborted because the interrupt was asserted
C20_Witness ==
    /\ ConnectMode
    /\ Done
    /\ result = AVERROR_EXIT
    /\ interrupt
    /\ \E i \in 1..Len(calls) : calls[i].op = "poll" /\ calls[i].res <= 0

====
